---- MODULE Spec2Model ----
(***************************************************************************)
(* A model of regen (src/src/bin/main.rs): the Mandelbrot synthesizer      *)
(* generate_mathematical_image, the "generate" command of main (n spawned  *)
(* sampler units and the join that awaits them) and the "upload" command.  *)
(*                                                                         *)
(* Numbers.  The code computes in f64.  The model draws its inputs from    *)
(* values on which every f64 operation of the code is exact: the plane     *)
(* coordinates of all pixels are small integers, so z_real, z_imag and     *)
(* magnitude_sq are small integers too and the model's integer arithmetic  *)
(* is the code's arithmetic.  x_pos and y_pos are held in HALF units (the  *)
(* value 1 stands for 0.5) so that a window of odd height can be centred   *)
(* between two lattice rows.                                               *)
(***************************************************************************)
EXTENDS Integers, Sequences, FiniteSets, TLC

(***************************************************************************)
(* Bounds of the model.                                                    *)
(***************************************************************************)
MaxIter == 4        \* max_iterations is drawn from 0..MaxIter
PosMax == 2         \* x_pos, y_pos are drawn from -PosMax..PosMax half units
MaxRadius == 1      \* escape_radius is drawn from 1..MaxRadius
MaxUnits == 2       \* count (the batch size) is drawn from 0..MaxUnits
MaxAttempts == 2    \* a unit regenerates only while attempts < MaxAttempts
MaxFiles == 2       \* src/data/images holds at most MaxFiles files
MaxRuns == 2        \* the upload command is run at most MaxRuns times

DimChoices == {1, 2, 4, 5}
SmoothChoices == {0, 1}
ColorStepChoices == {1000}
IntensityChoices == {0, 128, 255}   \* values of the u8 _intensity
RandChannel == {0, 255}             \* values of a random u8 colour channel

(***************************************************************************)
(* Program constants.                                                      *)
(***************************************************************************)
EscapeLimit == 4    \* magnitude_sq < 4.0
BandLoNum == 3      \* fractal_ratio < 0.3, as the fraction BandLoNum / BandDen
BandHiNum == 7      \* fractal_ratio > 0.7, as the fraction BandHiNum / BandDen
BandDen == 10
NoiseMin == 1000000 \* gen_range(1_000_000..=3_000_000)
NoiseMax == 3000000

White == <<255, 255, 255>>
Black == <<0, 0, 0>>

VARIABLES
    \* generate_mathematical_image, one call, statement by statement
    width, height, pattern_type, mandelbrot_params,
    img, x, y, c_real, c_imag, z_real, z_imag, iterations, magnitude_sq,
    gpc,        \* position in the function
    orbit,      \* history: magnitude_sq after each step of the current pixel
    \* the generate command: main and the tasks it spawns, units 0 .. count-1
    count, preview,
    spawned,    \* number of tasks main has spawned so far
    mainPc,     \* "running" | "returned"
    mainResult, \* what main returned: "none" | "Ok" | "Err"
    upc,        \* position of each unit in its task
    fractal_ratio, attempts, path,
    io_error,   \* the I/O call of each unit that returned Err, or "none"
    disk,       \* the files of src/data/images, by path
    writers, readers,   \* history: the units that wrote / read each path
    tally,      \* history: the images each unit has synthesized, measured
                \* and seen rejected so far
    \* the upload command
    folder,     \* src/data/images: whether it exists, and the size of each file
    csv,        \* src/data/urls.csv: whether it exists, and its records
    sink,       \* the objects of the Space, by key
    tasks,      \* the put task spawned for each file: "pending" | "Ok" | "Err"
    folderResult,   \* what upload_folder_to_do_space returned
    uploadResult,   \* what upload returned
    upPc,       \* "idle" | "uploading" | "ledger"
    runs,       \* number of upload runs that have returned
    csvAfter    \* history: the records of urls.csv when each run returned

synthVars == <<width, height, pattern_type, mandelbrot_params, img, x, y,
               c_real, c_imag, z_real, z_imag, iterations, magnitude_sq,
               gpc, orbit>>

genVars == <<count, preview, spawned, mainPc, mainResult, upc, fractal_ratio,
             attempts, path, io_error, disk, writers, readers, tally>>

upVars == <<folder, csv, sink, tasks, folderResult, uploadResult, upPc, runs,
            csvAfter>>

vars == <<synthVars, genVars, upVars>>

(***************************************************************************)
(* The view window (lines 52-64).  Coordinates with suffix 2 are in half   *)
(* units.                                                                  *)
(***************************************************************************)
Pixels(w, h) == (0 .. (w - 1)) \X (0 .. (h - 1))

ViewWidth(p) == 4 * p.escape_radius

ViewHeight(w, h, p) == (ViewWidth(p) * h) \div w

XMin2(p) == p.x_pos - ViewWidth(p)

XMax2(p) == p.x_pos + ViewWidth(p)

YMin2(w, h, p) == p.y_pos - ViewHeight(w, h, p)

YMax2(w, h, p) == p.y_pos + ViewHeight(w, h, p)

CReal2(w, p, px) == XMin2(p) + (px * (XMax2(p) - XMin2(p))) \div w

CImag2(w, h, p, py) == YMin2(w, h, p) + (py * (YMax2(w, h, p) - YMin2(w, h, p))) \div h

CReal(w, p, px) == CReal2(w, p, px) \div 2

CImag(w, h, p, py) == CImag2(w, h, p, py) \div 2

\* The inputs on which the window arithmetic is exact and lands on the lattice.
Representable(w, h, p) ==
    /\ (ViewWidth(p) * h) % w = 0
    /\ \A px \in 0 .. (w - 1) :
          /\ (px * (XMax2(p) - XMin2(p))) % w = 0
          /\ CReal2(w, p, px) % 2 = 0
    /\ \A py \in 0 .. (h - 1) :
          /\ (py * (YMax2(w, h, p) - YMin2(w, h, p))) % h = 0
          /\ CImag2(w, h, p, py) % 2 = 0

(***************************************************************************)
(* The escape-time loop (lines 66-78).                                     *)
(***************************************************************************)
\* the loop guard with an off-by-one bound
WhileCond_OffByOne(mag, it, max_iterations) ==
    mag < EscapeLimit /\ it <= max_iterations

\* the orbit is taken to escape at magnitude 1
WhileCond_UnitRadius(mag, it, max_iterations) ==
    mag < 1 /\ it < max_iterations

WhileCond(mag, it, max_iterations) ==
    mag < EscapeLimit /\ it < max_iterations

WhileBody(zr, zi, cr, ci, it) ==
    LET next_z_real == zr * zr - zi * zi + cr
        next_z_imag == 2 * zr * zi + ci
    IN  [z_real |-> next_z_real,
         z_imag |-> next_z_imag,
         magnitude_sq |-> next_z_real * next_z_real + next_z_imag * next_z_imag,
         iterations |-> it + 1]

RECURSIVE EscapeTime(_, _, _, _)
EscapeTime(s, cr, ci, max_iterations) ==
    IF WhileCond(s.magnitude_sq, s.iterations, max_iterations)
    THEN EscapeTime(WhileBody(s.z_real, s.z_imag, cr, ci, s.iterations),
                    cr, ci, max_iterations)
    ELSE s

ZeroOrbit == [z_real |-> 0, z_imag |-> 0, magnitude_sq |-> 0, iterations |-> 0]

(***************************************************************************)
(* The colour of a pixel (lines 80-97).  intensity is the u8 the code      *)
(* computes from the smoothed iteration count (lines 85-90); its logarithms*)
(* are not computed here, any value of a u8 is allowed for it.             *)
(***************************************************************************)
\* the smoothed intensity painted when smoothness is set
PixelColour_Shaded(it, max_iterations, smoothness, intensity) ==
    IF it = max_iterations
    THEN Black
    ELSE IF smoothness = 0 THEN White ELSE <<intensity, intensity, intensity>>

\* a pixel is black only when the loop took a step
PixelColour_BlackAfterSteps(it, max_iterations, smoothness, intensity) ==
    IF it = max_iterations /\ it > 0
    THEN Black
    ELSE IF smoothness = 0 THEN White ELSE White

PixelColour(it, max_iterations, smoothness, intensity) ==
    IF it = max_iterations
    THEN Black
    ELSE IF smoothness = 0 THEN White ELSE White

\* The tuples generate_mathematical_image is called with (line 26).
ParamSpace ==
    [x_pos : -PosMax .. PosMax, y_pos : -PosMax .. PosMax,
     escape_radius : 1 .. MaxRadius, max_iterations : 0 .. MaxIter,
     smoothness : SmoothChoices, color_step : ColorStepChoices]

NoParams == [x_pos |-> 0, y_pos |-> 0, escape_radius |-> 1, max_iterations |-> 0,
             smoothness |-> 0, color_step |-> 1000]

\* The whole raster of one call in mandelbrot mode (lines 35-99).
RenderImage(w, h, p) ==
    [px \in Pixels(w, h) |->
        LET s == EscapeTime(ZeroOrbit, CReal(w, p, px[1]), CImag(w, h, p, px[2]),
                            p.max_iterations)
        IN  PixelColour(s.iterations, p.max_iterations, p.smoothness,
                        CHOOSE v \in IntensityChoices : TRUE)]

(***************************************************************************)
(* The generate command (main, lines 179-306).                             *)
(***************************************************************************)
Units == 0 .. (MaxUnits - 1)

\* format!("{}", i) of a usize: its decimal digits
DigitChars == <<"0", "1", "2", "3", "4", "5", "6", "7", "8", "9">>

RECURSIVE Decimal(_)
Decimal(n) ==
    IF n < 10
    THEN <<DigitChars[n + 1]>>
    ELSE Append(Decimal(n \div 10), DigitChars[(n % 10) + 1])

\* the file name of every unit is the same
Filename_Shared(i) == <<"mandelbrot_">> \o <<"0">> \o <<".png">>

\* format!("mandelbrot_{}.png", i), lines 201 and 233
Filename(i) == <<"mandelbrot_">> \o Decimal(i) \o <<".png">>

\* PathBuf::from("src/data/images").join(filename), lines 119-121
ImagePath(filename) == <<"src/data/images/">> \o filename

AllPaths == {ImagePath(Filename(i)) : i \in Units}

NoFile == [exists |-> FALSE]

\* A file that img.save left behind when it failed after creating it.
TruncatedFile == [exists |-> TRUE, decodable |-> FALSE]

\* An encoded image followed by noise bytes of appended noise.
ImageFile(grid, w, h, noise) ==
    [exists |-> TRUE, decodable |-> TRUE, grid |-> grid, width |-> w,
     height |-> h, noise |-> noise]

\* What the units draw (lines 186-193, 220-227): the code draws width from
\* 3000..=5000, height from 2000..=3500 and the parameters from real
\* intervals; the model draws from three representable tuples, whose images
\* have the ratios 16/16, 6/20 and 4/16.
DrawChoices ==
    {[width |-> 4, height |-> 4,
      params |-> [x_pos |-> 0, y_pos |-> 0, escape_radius |-> 1,
                  max_iterations |-> 1, smoothness |-> 1, color_step |-> 1000]],
     [width |-> 4, height |-> 5,
      params |-> [x_pos |-> 0, y_pos |-> 1, escape_radius |-> 1,
                  max_iterations |-> 3, smoothness |-> 1, color_step |-> 1000]],
     [width |-> 4, height |-> 4,
      params |-> [x_pos |-> 0, y_pos |-> 0, escape_radius |-> 1,
                  max_iterations |-> 4, smoothness |-> 1, color_step |-> 1000]]}

\* the image generate_mathematical_image renders for each drawn tuple
Rendered == [d \in DrawChoices |-> RenderImage(d.width, d.height, d.params)]

\* the range is taken without its ends
NoiseChoices_Exclusive == {NoiseMin - 1, NoiseMax + 1}

\* rng.gen_range(1_000_000..=3_000_000), line 264: the two ends of the range
NoiseChoices == {NoiseMin, NoiseMax}

\* img.save, line 123: the bytes of the encoded file, counted as the bytes of
\* its RGB raster
EncodedLen(w, h) == 3 * w * h

\* metadata.len(), line 263: the length of a file in bytes
FileLen(file) ==
    IF file.decodable THEN EncodedLen(file.width, file.height) + file.noise ELSE 0

\* the bytes are written from the start of the file
AppendNoise_FromStart(file, noise_bytes) ==
    IF noise_bytes >= FileLen(file)
    THEN [exists |-> TRUE, decodable |-> FALSE]
    ELSE [file EXCEPT !.decodable = FALSE]

\* seek(SeekFrom::End(0)) and write_all(&noise), lines 267-268, on a file
\* opened without truncate or create (line 261)
AppendNoise(file, noise_bytes) == [file EXCEPT !.noise = @ + noise_bytes]

\* A ratio is the pair of the two integers the code divides (line 254).
Ratio(black, total) == [black |-> black, total |-> total]

\* the ratio a unit starts with lies inside the band
ZeroRatio_Half == Ratio(1, 2)

ZeroRatio == Ratio(0, 1)     \* let mut fractal_ratio = 0.0, line 213

\* the upper end of the band is not tested
OutOfBand_LowerOnly(r) == BandDen * r.black < BandLoNum * r.total

\* both tests of the loop condition are "less than"
OutOfBand_BothBelow(r) ==
    \/ BandDen * r.black < BandLoNum * r.total
    \/ BandDen * r.black < BandHiNum * r.total

\* fractal_ratio < 0.3 || fractal_ratio > 0.7, line 216
OutOfBand(r) ==
    \/ BandDen * r.black < BandLoNum * r.total
    \/ BandDen * r.black > BandHiNum * r.total

\* a unit whose image was rejected gives up
LoopTarget_GiveUp(r, a) ==
    IF OutOfBand(r)
    THEN IF a > 0 THEN "failed" ELSE "measure"
    ELSE "pad"

\* the first turn of the loop regenerates too
LoopTarget_AlwaysRegenerate(r, a) ==
    IF OutOfBand(r) THEN "regen" ELSE "pad"

\* lines 216-217: where a unit goes when it evaluates the loop condition
LoopTarget(r, a) ==
    IF OutOfBand(r)
    THEN IF a > 0 THEN "regen" ELSE "measure"
    ELSE "pad"

NoTally == [synthesized |-> 0, measured |-> 0, rejected |-> 0]

Terminated(i) == upc[i] \in {"done", "failed"}

\* an error of one unit ends every unit that is still running
Abort_All(pcs, i) ==
    [j \in DOMAIN pcs |->
        IF pcs[j] \in {"unspawned", "done", "failed"} THEN pcs[j] ELSE "failed"]

\* the ? operator: the task of unit i returns the Err
Abort(pcs, i) == [pcs EXCEPT ![i] = "failed"]

\* an error in synthesis or measurement is answered by another attempt
AfterError_Retry(pcs, i, call) ==
    IF call \in {"create_dir_all", "save", "open"}
    THEN [pcs EXCEPT ![i] = "regen"]
    ELSE Abort(pcs, i)

\* what an Err of an I/O call does to the unit (the ? of lines 210, 242, 245,
\* 261-268, 294)
AfterError(pcs, i, call) == Abort(pcs, i)

UpIdle ==
    /\ folder = [exists |-> FALSE, files |-> <<>>]
    /\ csv = [exists |-> FALSE, records |-> <<>>]
    /\ sink = <<>>
    /\ tasks = <<>>
    /\ folderResult = "none" /\ uploadResult = "none"
    /\ upPc = "idle" /\ runs = MaxRuns
    /\ csvAfter = <<>>

GenIdle ==
    /\ count = 0 /\ preview = FALSE /\ spawned = 0
    /\ mainPc = "returned" /\ mainResult = "none"
    /\ upc = [i \in Units |-> "unspawned"]
    /\ fractal_ratio = [i \in Units |-> ZeroRatio]
    /\ attempts = [i \in Units |-> 0]
    /\ path = [i \in Units |-> <<>>]
    /\ io_error = [i \in Units |-> "none"]
    /\ disk = [f \in AllPaths |-> NoFile]
    /\ writers = [f \in AllPaths |-> {}]
    /\ readers = [f \in AllPaths |-> {}]
    /\ tally = [i \in Units |-> NoTally]

SynthIdle ==
    /\ width = 1 /\ height = 1 /\ pattern_type = "mandelbrot"
    /\ mandelbrot_params = NoParams
    /\ img = [px \in Pixels(1, 1) |-> White]
    /\ x = 0 /\ y = 0 /\ c_real = 0 /\ c_imag = 0
    /\ z_real = 0 /\ z_imag = 0 /\ iterations = 0 /\ magnitude_sq = 0
    /\ gpc = "done" /\ orbit = <<>>

(***************************************************************************)
(* generate_mathematical_image, statement by statement.                    *)
(***************************************************************************)
SynthInit ==
    /\ GenIdle
    /\ UpIdle
    /\ width \in DimChoices
    /\ height \in DimChoices
    /\ pattern_type \in {"mandelbrot", "noise"}
    /\ mandelbrot_params \in ParamSpace
    /\ \/ pattern_type = "mandelbrot" /\ Representable(width, height, mandelbrot_params)
       \/ pattern_type = "noise" /\ width * height <= 2 /\ mandelbrot_params = NoParams
    /\ img = [px \in Pixels(width, height) |-> White]
    /\ x = 0 /\ y = 0
    /\ c_real = 0 /\ c_imag = 0
    /\ z_real = 0 /\ z_imag = 0 /\ iterations = 0 /\ magnitude_sq = 0
    /\ gpc = "for"
    /\ orbit = <<>>

\* lines 63-70: the plane point of pixel (x, y) and the start of its orbit
ForPixel ==
    /\ gpc = "for" /\ pattern_type = "mandelbrot"
    /\ c_real' = CReal(width, mandelbrot_params, x)
    /\ c_imag' = CImag(width, height, mandelbrot_params, y)
    /\ z_real' = 0 /\ z_imag' = 0 /\ iterations' = 0 /\ magnitude_sq' = 0
    /\ orbit' = <<>>
    /\ gpc' = "while"
    /\ UNCHANGED <<width, height, pattern_type, mandelbrot_params, img, x, y>>
    /\ UNCHANGED <<genVars, upVars>>

\* lines 72-78: one turn of the while loop
WhileStep ==
    /\ gpc = "while"
    /\ WhileCond(magnitude_sq, iterations, mandelbrot_params.max_iterations)
    /\ LET s == WhileBody(z_real, z_imag, c_real, c_imag, iterations)
       IN  /\ z_real' = s.z_real
           /\ z_imag' = s.z_imag
           /\ magnitude_sq' = s.magnitude_sq
           /\ iterations' = s.iterations
           /\ orbit' = Append(orbit, s.magnitude_sq)
    /\ UNCHANGED <<width, height, pattern_type, mandelbrot_params, img, x, y,
                   c_real, c_imag, gpc>>
    /\ UNCHANGED <<genVars, upVars>>

\* lines 80-97: the loop has ended, the pixel is painted
Paint ==
    /\ gpc = "while"
    /\ ~WhileCond(magnitude_sq, iterations, mandelbrot_params.max_iterations)
    /\ \E intensity \in IntensityChoices :
          img' = [img EXCEPT ![<<x, y>>] =
                     PixelColour(iterations, mandelbrot_params.max_iterations,
                                 mandelbrot_params.smoothness, intensity)]
    /\ gpc' = "painted"
    /\ UNCHANGED <<width, height, pattern_type, mandelbrot_params, x, y,
                   c_real, c_imag, z_real, z_imag, iterations, magnitude_sq, orbit>>
    /\ UNCHANGED <<genVars, upVars>>

\* lines 108-115: an unrecognized pattern paints random noise
NoisePixel ==
    /\ gpc = "for" /\ pattern_type # "mandelbrot"
    /\ \E r_val \in RandChannel, g_val \in RandChannel, b_val \in RandChannel :
          img' = [img EXCEPT ![<<x, y>>] = <<r_val, g_val, b_val>>]
    /\ gpc' = "painted"
    /\ UNCHANGED <<width, height, pattern_type, mandelbrot_params, x, y,
                   c_real, c_imag, z_real, z_imag, iterations, magnitude_sq, orbit>>
    /\ UNCHANGED <<genVars, upVars>>

\* lines 61-62, 98-99: for x in 0..width { for y in 0..height
NextPixel ==
    /\ gpc = "painted"
    /\ IF y + 1 < height
       THEN x' = x /\ y' = y + 1 /\ gpc' = "for"
       ELSE IF x + 1 < width
            THEN x' = x + 1 /\ y' = 0 /\ gpc' = "for"
            ELSE x' = x /\ y' = y /\ gpc' = "save"
    /\ UNCHANGED <<width, height, pattern_type, mandelbrot_params, img,
                   c_real, c_imag, z_real, z_imag, iterations, magnitude_sq, orbit>>
    /\ UNCHANGED <<genVars, upVars>>

\* lines 119-126: create_dir_all and img.save, each of which may fail
SaveImage ==
    /\ gpc = "save"
    /\ gpc' \in {"done", "failed"}
    /\ UNCHANGED <<width, height, pattern_type, mandelbrot_params, img, x, y,
                   c_real, c_imag, z_real, z_imag, iterations, magnitude_sq, orbit>>
    /\ UNCHANGED <<genVars, upVars>>

SynthNext == ForPixel \/ WhileStep \/ Paint \/ NoisePixel \/ NextPixel \/ SaveImage

Init ==
    /\ SynthIdle
    /\ UpIdle
    /\ count \in 0 .. MaxUnits
    /\ preview \in BOOLEAN
    /\ spawned = 0
    /\ mainPc = "running" /\ mainResult = "none"
    /\ upc = [i \in Units |-> "unspawned"]
    /\ fractal_ratio = [i \in Units |-> ZeroRatio]
    /\ attempts = [i \in Units |-> 0]
    /\ path = [i \in Units |-> <<>>]
    /\ io_error = [i \in Units |-> "none"]
    /\ disk = [f \in AllPaths |-> NoFile]
    /\ writers = [f \in AllPaths |-> {}]
    /\ readers = [f \in AllPaths |-> {}]
    /\ tally = [i \in Units |-> NoTally]

\* lines 181-183: main spawns the task of the next unit
Spawn ==
    /\ mainPc = "running" /\ spawned < count
    /\ upc' = [upc EXCEPT ![spawned] = "start"]
    /\ spawned' = spawned + 1
    /\ UNCHANGED <<count, preview, mainPc, mainResult, fractal_ratio, attempts,
                   path, io_error, disk, writers, readers, tally>>
    /\ UNCHANGED <<synthVars, upVars>>

\* generate_mathematical_image called by unit i with the drawn tuple d:
\* the image is rendered and saved at the path (lines 32-126)
SynthesizeOk(i, d, next) ==
    LET f == ImagePath(Filename(i))
    IN  /\ disk' = [disk EXCEPT ![f] =
                       ImageFile(Rendered[d], d.width, d.height, 0)]
        /\ writers' = [writers EXCEPT ![f] = @ \cup {i}]
        /\ path' = [path EXCEPT ![i] = f]
        /\ upc' = [upc EXCEPT ![i] = next]
        /\ tally' = [tally EXCEPT ![i].synthesized = @ + 1]
        /\ UNCHANGED <<io_error, readers>>

\* create_dir_all returns Err (line 120): nothing is written
SynthesizeDirErr(i) ==
    /\ upc' = AfterError(upc, i, "create_dir_all")
    /\ io_error' = [io_error EXCEPT ![i] = "create_dir_all"]
    /\ UNCHANGED <<disk, writers, path, readers, tally>>

\* img.save returns Err (line 123): the file is as it was, or was created and
\* left incomplete
SynthesizeSaveErr(i) ==
    LET f == ImagePath(Filename(i))
    IN  /\ \/ UNCHANGED <<disk, writers>>
           \/ /\ disk' = [disk EXCEPT ![f] = TruncatedFile]
              /\ writers' = [writers EXCEPT ![f] = @ \cup {i}]
        /\ upc' = AfterError(upc, i, "save")
        /\ io_error' = [io_error EXCEPT ![i] = "save"]
        /\ UNCHANGED <<path, readers, tally>>

\* lines 184-215: the first image of unit i, then the loop condition
Generate(i) ==
    /\ upc[i] = "start"
    /\ \E d \in DrawChoices :
          SynthesizeOk(i, d, LoopTarget(ZeroRatio, 0))
    /\ UNCHANGED <<count, preview, spawned, mainPc, mainResult, fractal_ratio,
                   attempts>>
    /\ UNCHANGED <<synthVars, upVars>>

GenerateErr(i) ==
    /\ upc[i] = "start"
    /\ SynthesizeDirErr(i) \/ SynthesizeSaveErr(i)
    /\ UNCHANGED <<count, preview, spawned, mainPc, mainResult, fractal_ratio,
                   attempts>>
    /\ UNCHANGED <<synthVars, upVars>>

\* lines 217-243: a rejected unit draws again and overwrites its image
Regenerate(i) ==
    /\ upc[i] = "regen"
    /\ attempts[i] < MaxAttempts
    /\ \E d \in DrawChoices : SynthesizeOk(i, d, "measure")
    /\ UNCHANGED <<count, preview, spawned, mainPc, mainResult, fractal_ratio,
                   attempts>>
    /\ UNCHANGED <<synthVars, upVars>>

RegenerateErr(i) ==
    /\ upc[i] = "regen"
    /\ attempts[i] < MaxAttempts
    /\ SynthesizeDirErr(i) \/ SynthesizeSaveErr(i)
    /\ UNCHANGED <<count, preview, spawned, mainPc, mainResult, fractal_ratio,
                   attempts>>
    /\ UNCHANGED <<synthVars, upVars>>

BlackPixels(file) ==
    Cardinality({px \in DOMAIN file.grid : file.grid[px] = Black})

\* lines 245-257: the image at path is opened, its black pixels are counted,
\* attempts is incremented and the loop condition is evaluated
Measure(i) ==
    /\ upc[i] = "measure"
    /\ disk[path[i]].exists /\ disk[path[i]].decodable
    /\ LET file == disk[path[i]]
           r == Ratio(BlackPixels(file), file.width * file.height)
       IN  /\ fractal_ratio' = [fractal_ratio EXCEPT ![i] = r]
           /\ attempts' = [attempts EXCEPT ![i] = @ + 1]
           /\ upc' = [upc EXCEPT ![i] = LoopTarget(r, attempts[i] + 1)]
           /\ tally' = [tally EXCEPT
                           ![i].measured = @ + 1,
                           ![i].rejected = IF OutOfBand(r) THEN @ + 1 ELSE @]
    /\ readers' = [readers EXCEPT ![path[i]] = @ \cup {i}]
    /\ UNCHANGED <<count, preview, spawned, mainPc, mainResult, path, io_error,
                   disk, writers>>
    /\ UNCHANGED <<synthVars, upVars>>

\* image::open returns Err (line 245): the file cannot be read or decoded
MeasureErr(i) ==
    /\ upc[i] = "measure"
    /\ upc' = AfterError(upc, i, "open")
    /\ io_error' = [io_error EXCEPT ![i] = "open"]
    /\ UNCHANGED <<count, preview, spawned, mainPc, mainResult, fractal_ratio,
                   attempts, path, disk, writers, readers, tally>>
    /\ UNCHANGED <<synthVars, upVars>>

\* lines 259-268: noise_bytes random bytes are appended to the file at path
Pad(i) ==
    /\ upc[i] = "pad"
    /\ disk[path[i]].exists
    /\ \E noise_bytes \in NoiseChoices :
          disk' = [disk EXCEPT ![path[i]] = AppendNoise(@, noise_bytes)]
    /\ writers' = [writers EXCEPT ![path[i]] = @ \cup {i}]
    /\ upc' = [upc EXCEPT ![i] = "padded"]
    /\ UNCHANGED <<count, preview, spawned, mainPc, mainResult, fractal_ratio,
                   attempts, path, io_error, readers, tally>>
    /\ UNCHANGED <<synthVars, upVars>>

\* open, metadata or seek returns Err (lines 261-267): nothing is written
PadOpenErr(i) ==
    /\ upc[i] = "pad"
    /\ upc' = AfterError(upc, i, "pad_open")
    /\ io_error' = [io_error EXCEPT ![i] = "pad_open"]
    /\ UNCHANGED <<count, preview, spawned, mainPc, mainResult, fractal_ratio,
                   attempts, path, disk, writers, readers, tally>>
    /\ UNCHANGED <<synthVars, upVars>>

\* write_all returns Err (line 268) after it wrote some of the bytes
PadWriteErr(i) ==
    /\ upc[i] = "pad"
    /\ disk[path[i]].exists
    /\ \E written \in {NoiseMin - 1} :
          disk' = [disk EXCEPT ![path[i]] = AppendNoise(@, written)]
    /\ writers' = [writers EXCEPT ![path[i]] = @ \cup {i}]
    /\ upc' = AfterError(upc, i, "write_all")
    /\ io_error' = [io_error EXCEPT ![i] = "write_all"]
    /\ UNCHANGED <<count, preview, spawned, mainPc, mainResult, fractal_ratio,
                   attempts, path, readers, tally>>
    /\ UNCHANGED <<synthVars, upVars>>

\* after the padding the unit goes back into the acceptance loop
Finish_Resynthesize(i) ==
    /\ upc[i] = "padded"
    /\ upc' = [upc EXCEPT ![i] = "regen"]
    /\ UNCHANGED <<count, preview, spawned, mainPc, mainResult, fractal_ratio,
                   attempts, path, io_error, disk, writers, readers, tally>>
    /\ UNCHANGED <<synthVars, upVars>>

\* lines 292-297: the optional preview, then the task returns Ok(())
Finish(i) ==
    /\ upc[i] = "padded"
    /\ upc' = [upc EXCEPT ![i] = "done"]
    /\ UNCHANGED <<count, preview, spawned, mainPc, mainResult, fractal_ratio,
                   attempts, path, io_error, disk, writers, readers, tally>>
    /\ UNCHANGED <<synthVars, upVars>>

\* preview_image returns Err (line 294): the viewer could not be spawned
PreviewErr(i) ==
    /\ upc[i] = "padded" /\ preview
    /\ upc' = AfterError(upc, i, "spawn")
    /\ io_error' = [io_error EXCEPT ![i] = "spawn"]
    /\ UNCHANGED <<count, preview, spawned, mainPc, mainResult, fractal_ratio,
                   attempts, path, disk, writers, readers, tally>>
    /\ UNCHANGED <<synthVars, upVars>>

(***************************************************************************)
(* The join (lines 302-305).  tasks holds JoinHandles: a handle resolves   *)
(* to Ok(r) where r is what the task returned, and to Err(JoinError) only  *)
(* when the task panicked; no statement of the task panics.                *)
(***************************************************************************)
JoinOutput(i) ==
    [ready |-> Terminated(i),
     join_error |-> FALSE,
     value |-> IF upc[i] = "failed" THEN "Err" ELSE "Ok"]

\* the Err a task returned is taken for an Err of the handle
TryJoinAll_Flatten(outs) ==
    IF \E i \in DOMAIN outs : outs[i].ready /\ (outs[i].join_error \/ outs[i].value = "Err")
    THEN "Err"
    ELSE IF \A i \in DOMAIN outs : outs[i].ready THEN "Ok" ELSE "Pending"

\* try_join_all: Err as soon as one future resolves to Err, Ok(vec) when all
\* have resolved to Ok
TryJoinAll(outs) ==
    IF \E i \in DOMAIN outs : outs[i].ready /\ outs[i].join_error
    THEN "Err"
    ELSE IF \A i \in DOMAIN outs : outs[i].ready THEN "Ok" ELSE "Pending"

\* lines 304-305, 314-315: try_join_all(tasks).await? and the return of main
Join ==
    /\ mainPc = "running" /\ spawned = count
    /\ LET joined == TryJoinAll([i \in 0 .. (count - 1) |-> JoinOutput(i)])
       IN  /\ joined # "Pending"
           /\ mainResult' = joined
    /\ mainPc' = "returned"
    /\ UNCHANGED <<count, preview, spawned, upc, fractal_ratio, attempts, path,
                   io_error, disk, writers, readers, tally>>
    /\ UNCHANGED <<synthVars, upVars>>

Next ==
    \/ Spawn
    \/ Join
    \/ \E i \in Units :
          \/ Generate(i) \/ GenerateErr(i)
          \/ Regenerate(i) \/ RegenerateErr(i)
          \/ Measure(i) \/ MeasureErr(i)
          \/ Pad(i) \/ PadOpenErr(i) \/ PadWriteErr(i)
          \/ Finish(i) \/ PreviewErr(i)

(***************************************************************************)
(* The upload command (upload_folder_to_do_space and upload, lines         *)
(* 318-557).  A string is the sequence of its characters; the constant     *)
(* pieces of keys and URLs are single elements of the sequence.            *)
(***************************************************************************)
\* The files src/data/images may hold: relative path and length in bytes.
FileUniverse ==
    {[name |-> <<"a", ".", "p", "n", "g">>, len |-> 1536],
     [name |-> <<"b", ".", "J", "P", "G">>, len |-> 2000000],
     [name |-> <<"c">>, len |-> 1029],
     [name |-> <<"d", ".", "t", "x", "t">>, len |-> 0],
     [name |-> <<"e", ".", "j", "p", "e", "g">>, len |-> 3145728],
     [name |-> <<"g", ".", "w", "e", "b", "p">>, len |-> 1285],
     [name |-> <<"s", "/", "f", ".", "g", "i", "f">>, len |-> 1023]}

EmptyString == <<>>

\* The folders the command may find: absent, or holding up to MaxFiles
\* files, listed in the order in which WalkDir yields them.
FolderChoices ==
    {[exists |-> FALSE, files |-> <<>>]} \cup
    {[exists |-> TRUE, files |-> fs] :
        fs \in UNION {{w \in [1 .. n -> FileUniverse] :
                         \A i, j \in 1 .. n : i # j => w[i] # w[j]} :
                      n \in 0 .. MaxFiles}}

FileNames(dir) == {dir.files[k].name : k \in 1 .. Len(dir.files)}

CsvHeader == <<<<"cdn_url">>, <<"origin_url">>, <<"file_name">>, <<"file_size_kib">>>>

NoCsv == [exists |-> FALSE, records |-> <<>>]

\* A urls.csv of one column that lists a file by its relative path.
LegacyCsv ==
    [exists |-> TRUE,
     records |-> <<<<<<"file_name">>>>, <<<<"a", ".", "p", "n", "g">>>>>>]

CsvChoices == {NoCsv, LegacyCsv}

UpperChars == <<"A", "B", "C", "D", "E", "F", "G", "H", "I", "J", "K", "L", "M",
                "N", "O", "P", "Q", "R", "S", "T", "U", "V", "W", "X", "Y", "Z">>

LowerChars == <<"a", "b", "c", "d", "e", "f", "g", "h", "i", "j", "k", "l", "m",
                "n", "o", "p", "q", "r", "s", "t", "u", "v", "w", "x", "y", "z">>

\* str::to_lowercase, line 378
ToLowercase(str) ==
    [k \in 1 .. Len(str) |->
        IF \E u \in 1 .. 26 : UpperChars[u] = str[k]
        THEN LowerChars[CHOOSE u \in 1 .. 26 : UpperChars[u] = str[k]]
        ELSE str[k]]

\* the position of the last occurrence of ch in str, 0 when there is none
LastIndexOf(str, ch) ==
    IF \E k \in 1 .. Len(str) : str[k] = ch
    THEN CHOOSE k \in 1 .. Len(str) :
            str[k] = ch /\ \A m \in (k + 1) .. Len(str) : str[m] # ch
    ELSE 0

\* Path::file_name: the last component of a relative path (line 513)
BaseName(file) == SubSeq(file, LastIndexOf(file, "/") + 1, Len(file))

NoExtension == [some |-> FALSE, str |-> EmptyString]

\* Path::extension: what follows the last dot of the file name, None when the
\* name has no dot or only a leading one (line 377)
Extension(file) ==
    LET name == BaseName(file)
        dot == LastIndexOf(name, ".")
    IN  IF dot <= 1
        THEN NoExtension
        ELSE [some |-> TRUE, str |-> SubSeq(name, dot + 1, Len(name))]

NoContentType == <<>>

\* lines 377-386: the content type of the put request
ContentType(file) ==
    LET extension == Extension(file)
    IN  IF extension.some
        THEN LET lower == ToLowercase(extension.str)
             IN  IF lower = <<"p", "n", "g">> THEN <<"image/png">>
                 ELSE IF lower = <<"j", "p", "g">> \/ lower = <<"j", "p", "e", "g">>
                      THEN <<"image/jpeg">>
                 ELSE IF lower = <<"g", "i", "f">> THEN <<"image/gif">>
                 ELSE IF lower = <<"w", "e", "b", "p">> THEN <<"image/webp">>
                 ELSE <<"application/octet-stream">>
        ELSE NoContentType

\* lines 346-353: the key of a file in the Space
S3Key(file) == <<"fractals/">> \o file

\* lines 498-504
OriginUrl(file) ==
    <<"https://", "benchmarkap", ".", "lon1", ".digitaloceanspaces.com/",
      "fractals/">> \o file

\* lines 452-458, 505-511
CdnUrl(file) ==
    <<"https://", "benchmarkap", ".", "lon1", ".cdn.digitaloceanspaces.com/",
      "fractals/">> \o file

\* format!("{:.2}", len as f64 / 1024.0), line 521: len / 1024 is exact in
\* f64, its decimal expansion is rounded to two places, ties to even
FileSizeKib(len) ==
    LET q == (len * 100) \div 1024
        r == (len * 100) % 1024
        hundredths == IF 2 * r > 1024 \/ (2 * r = 1024 /\ q % 2 = 1)
                      THEN q + 1 ELSE q
        frac == hundredths % 100
    IN  Decimal(hundredths \div 100) \o <<".">>
        \o <<DigitChars[(frac \div 10) + 1], DigitChars[(frac % 10) + 1]>>

\* lines 470-491: the row read from one record of urls.csv; a record of
\* another length yields no row
RowOfRecord(record) ==
    IF Len(record) = 4
    THEN <<<<record[1], record[2], record[3], record[4]>>>>
    ELSE IF Len(record) = 2
         THEN <<<<record[1], record[2], EmptyString, EmptyString>>>>
         ELSE IF Len(record) = 1
              THEN <<<<record[1], EmptyString, EmptyString, EmptyString>>>>
              ELSE <<>>

RECURSIVE RowsOfRecords(_)
RowsOfRecords(records) ==
    IF Len(records) = 0
    THEN <<>>
    ELSE RowOfRecord(Head(records)) \o RowsOfRecords(Tail(records))

\* lines 463-494: the reader takes the first record for the header and
\* returns Err on a record whose length differs from the header's
ReadCsv(file) ==
    IF ~file.exists \/ Len(file.records) = 0
    THEN [ok |-> TRUE, rows |-> <<>>]
    ELSE IF \E k \in 2 .. Len(file.records) :
               Len(file.records[k]) # Len(file.records[1])
         THEN [ok |-> FALSE, rows |-> <<>>]
         ELSE [ok |-> TRUE, rows |-> RowsOfRecords(Tail(file.records))]

\* existing_rows.iter().any(|(f, _, _, _)| f == file), line 528
IsDuplicate(existing_rows, file) ==
    \E k \in 1 .. Len(existing_rows) : existing_rows[k][1] = file

\* lines 496-537: the rows after the files of urls were gone through in order
RECURSIVE AppendNew(_, _)
AppendNew(existing_rows, urls) ==
    IF Len(urls) = 0
    THEN existing_rows
    ELSE LET file == Head(urls).name
             row == <<CdnUrl(file), OriginUrl(file), BaseName(file),
                      FileSizeKib(Head(urls).len)>>
         IN  AppendNew(IF IsDuplicate(existing_rows, file)
                       THEN existing_rows
                       ELSE Append(existing_rows, row),
                       Tail(urls))

\* lines 548-553: the header and one record for each row
WriteCsv(rows) == [exists |-> TRUE, records |-> <<CsvHeader>> \o rows]

\* the JoinHandle of the put task of file f
PutOutput(f) ==
    [ready |-> tasks[f] # "pending", join_error |-> FALSE, value |-> tasks[f]]

UploadInit ==
    /\ SynthIdle
    /\ GenIdle
    /\ folder \in FolderChoices
    /\ csv \in CsvChoices
    /\ sink = <<>>
    /\ tasks = <<>>
    /\ folderResult = "none" /\ uploadResult = "none"
    /\ upPc = "idle" /\ runs = 0
    /\ csvAfter = <<>>

\* lines 413-417: the folder does not exist, upload returns Ok at once
UploadNoFolder ==
    /\ upPc = "idle" /\ runs < MaxRuns
    /\ ~folder.exists
    /\ uploadResult' = "Ok"
    /\ runs' = runs + 1
    /\ csvAfter' = Append(csvAfter, csv.records)
    /\ UNCHANGED <<folder, csv, sink, tasks, folderResult, upPc>>
    /\ UNCHANGED <<synthVars, genVars>>

\* lines 335-401: every file of the folder is read and its put task spawned
UploadStart ==
    /\ upPc = "idle" /\ runs < MaxRuns
    /\ folder.exists
    /\ tasks' = [f \in FileNames(folder) |-> "pending"]
    /\ folderResult' = "none"
    /\ upPc' = "uploading"
    /\ UNCHANGED <<folder, csv, sink, uploadResult, runs, csvAfter>>
    /\ UNCHANGED <<synthVars, genVars>>

\* fs::read returns Err (line 357): upload_folder_to_do_space returns the Err
\* after it spawned the tasks of the files walked before
UploadReadErr ==
    /\ upPc = "idle" /\ runs < MaxRuns
    /\ folder.exists
    /\ \E k \in 1 .. Len(folder.files) :
          tasks' = [f \in {folder.files[m].name : m \in 1 .. (k - 1)} |-> "pending"]
    /\ folderResult' = "Err"
    /\ upPc' = "ledger"
    /\ UNCHANGED <<folder, csv, sink, uploadResult, runs, csvAfter>>
    /\ UNCHANGED <<synthVars, genVars>>

\* lines 363-392: put_object of the task of file f succeeds
PutOk(f) ==
    /\ f \in DOMAIN tasks /\ tasks[f] = "pending"
    /\ tasks' = [tasks EXCEPT ![f] = "Ok"]
    /\ sink' = [k \in DOMAIN sink \cup {S3Key(f)} |->
                   IF k = S3Key(f)
                   THEN [len |-> (CHOOSE e \in FileUniverse : e.name = f).len,
                         content_type |-> ContentType(f), acl |-> "public-read"]
                   ELSE sink[k]]
    /\ UNCHANGED <<folder, csv, folderResult, uploadResult, upPc, runs, csvAfter>>
    /\ UNCHANGED <<synthVars, genVars>>

\* lines 393-396: put_object of the task of file f fails
PutErr(f) ==
    /\ f \in DOMAIN tasks /\ tasks[f] = "pending"
    /\ tasks' = [tasks EXCEPT ![f] = "Err"]
    /\ UNCHANGED <<folder, csv, sink, folderResult, uploadResult, upPc, runs, csvAfter>>
    /\ UNCHANGED <<synthVars, genVars>>

\* lines 403-408: try_join_all(upload_tasks).await? and the return
FolderJoin ==
    /\ upPc = "uploading"
    /\ LET joined == TryJoinAll([f \in DOMAIN tasks |-> PutOutput(f)])
       IN  /\ joined # "Pending"
           /\ folderResult' = joined
    /\ upPc' = "ledger"
    /\ UNCHANGED <<folder, csv, sink, tasks, uploadResult, runs, csvAfter>>
    /\ UNCHANGED <<synthVars, genVars>>

\* upload returns the Err of the folder upload and leaves urls.csv alone
UpdateLedger_UnlessFailed ==
    /\ upPc = "ledger"
    /\ LET read == ReadCsv(csv)
       IN  IF read.ok /\ folderResult # "Err"
           THEN /\ csv' = WriteCsv(AppendNew(read.rows, folder.files))
                /\ uploadResult' = "Ok"
           ELSE /\ csv' = csv
                /\ uploadResult' = "Err"
    /\ csvAfter' = Append(csvAfter, csv'.records)
    /\ runs' = runs + 1
    /\ tasks' = <<>>
    /\ upPc' = "idle"
    /\ UNCHANGED <<folder, sink, folderResult>>
    /\ UNCHANGED <<synthVars, genVars>>

\* lines 433-556: the result of the folder upload is logged, the files are
\* walked, urls.csv is read, extended and written back, and upload returns;
\* the put tasks still pending end with the process
UpdateLedger ==
    /\ upPc = "ledger"
    /\ LET read == ReadCsv(csv)
       IN  IF read.ok
           THEN /\ csv' = WriteCsv(AppendNew(read.rows, folder.files))
                /\ uploadResult' = "Ok"
           ELSE /\ csv' = csv
                /\ uploadResult' = "Err"
    /\ csvAfter' = Append(csvAfter, csv'.records)
    /\ runs' = runs + 1
    /\ tasks' = <<>>
    /\ upPc' = "idle"
    /\ UNCHANGED <<folder, sink, folderResult>>
    /\ UNCHANGED <<synthVars, genVars>>

\* lines 548-553: from_path has created urls.csv anew (the file is truncated)
\* and write_record or flush returns Err while the records are still in the
\* buffer of the writer: the file is left empty and upload returns the Err
UpdateLedgerWriteErr ==
    /\ upPc = "ledger"
    /\ ReadCsv(csv).ok
    /\ LET full == WriteCsv(AppendNew(ReadCsv(csv).rows, folder.files)).records
       IN  \E n \in {0} :
              csv' = [exists |-> TRUE, records |-> SubSeq(full, 1, n)]
    /\ uploadResult' = "Err"
    /\ csvAfter' = Append(csvAfter, csv'.records)
    /\ runs' = runs + 1
    /\ tasks' = <<>>
    /\ upPc' = "idle"
    /\ UNCHANGED <<folder, sink, folderResult>>
    /\ UNCHANGED <<synthVars, genVars>>

UploadNext ==
    \/ UploadNoFolder
    \/ UploadStart
    \/ UploadReadErr
    \/ \E f \in FileNames(folder) : PutOk(f) \/ PutErr(f)
    \/ FolderJoin
    \/ UpdateLedger
    \/ UpdateLedgerWriteErr

Spec == Init /\ [][Next]_vars

\* The generate command on the tokio runtime (#[tokio::main], line 173): main
\* runs until it returns and every spawned task is polled until it returns,
\* so a step of main or of a unit that stays possible is taken.
\* the steps of main, and the steps of the task of unit i in which no I/O
\* call returns an error
MainStep == Spawn \/ Join

UnitStep(i) ==
    Generate(i) \/ Regenerate(i) \/ Measure(i) \/ Pad(i) \/ Finish(i)

Fairness ==
    /\ WF_vars(MainStep)
    /\ \A i \in Units : WF_vars(UnitStep(i))

NextNoError == MainStep \/ \E i \in Units : UnitStep(i)

SpecFair == Init /\ [][NextNoError]_vars /\ Fairness

SpecSynth == SynthInit /\ [][SynthNext]_vars

SpecUpload == UploadInit /\ [][UploadNext]_vars

(***************************************************************************)
(* Claims about the synthesizer, checked under SpecSynth.                  *)
(***************************************************************************)
InMandelbrot == pattern_type = "mandelbrot"

\* C8 (as claimed): when the loop of a pixel ended with
\* iterations == max_iterations > 0 (the pixel is painted black), magnitude_sq
\* was below 4.0 after every one of the steps, the last one included.
C8_BlackNeverEscaped ==
    (/\ InMandelbrot
     /\ gpc = "painted"
     /\ mandelbrot_params.max_iterations > 0
     /\ iterations = mandelbrot_params.max_iterations)
    => /\ img[<<x, y>>] = Black
       /\ \A k \in 1 .. Len(orbit) : orbit[k] < EscapeLimit

\* C9: the escape-time loop takes at most max_iterations steps and the count
\* it ends with is at most max_iterations.
C9_IterationsBounded ==
    (InMandelbrot /\ gpc \in {"while", "painted"})
    => /\ iterations <= mandelbrot_params.max_iterations
       /\ Len(orbit) = iterations

C9_Witness ==
    /\ InMandelbrot
    /\ gpc = "painted"
    /\ mandelbrot_params.max_iterations = MaxIter
    /\ iterations = MaxIter
    /\ x > 0

RECURSIVE StaysBelow(_, _, _, _, _)
StaysBelow(zr, zi, cr, ci, steps) ==
    IF steps = 0
    THEN TRUE
    ELSE LET re == zr * zr - zi * zi + cr
             im == 2 * zr * zi + ci
         IN  re * re + im * im < 4 /\ StaysBelow(re, im, cr, ci, steps - 1)

\* the colour the program gives c = 0 with max_iterations = 50 is black
OriginIsBlack ==
    \A smoothness \in SmoothChoices, intensity \in IntensityChoices :
        PixelColour(EscapeTime(ZeroOrbit, 0, 0, 50).iterations, 50,
                    smoothness, intensity) = Black

C17_BoundedIsBlack ==
    /\ (/\ InMandelbrot
        /\ gpc = "painted"
        /\ StaysBelow(0, 0, c_real, c_imag, mandelbrot_params.max_iterations))
       => img[<<x, y>>] = Black
    /\ OriginIsBlack

C17_Witness ==
    /\ InMandelbrot
    /\ gpc = "painted"
    /\ c_real = 0 /\ c_imag = 0
    /\ mandelbrot_params.max_iterations = MaxIter
    /\ iterations = MaxIter
    /\ img[<<x, y>>] = Black
    /\ \E px \in Pixels(width, height) : px # <<x, y>> /\ img[px] = Black

\* C19: when the escaped (white) branch is taken, the loop was left with
\* iterations < max_iterations and magnitude_sq >= 4.0, so magnitude_sq > 0
\* and its logarithm is defined; this holds for every point and every
\* max_iterations, 0 included.
C19_LogarithmDefined ==
    (/\ InMandelbrot
     /\ gpc = "painted"
     /\ img[<<x, y>>] # Black)
    => /\ iterations < mandelbrot_params.max_iterations
       /\ magnitude_sq >= 4
       /\ magnitude_sq > 0

C19_Witness ==
    /\ InMandelbrot
    /\ gpc = "painted"
    /\ img[<<x, y>>] = White
    /\ iterations >= 2
    /\ iterations < mandelbrot_params.max_iterations
    /\ magnitude_sq >= 4
    /\ \A k \in 1 .. (Len(orbit) - 1) : orbit[k] < 4

(***************************************************************************)
(* Claims about the generate command, checked under Spec.                  *)
(***************************************************************************)
Batch == 0 .. (count - 1)

C2_FailureReported ==
    mainPc = "returned"
    => (mainResult = "Err" <=> \E i \in Batch : upc[i] = "failed")

\* C3: main returns (with either outcome) only after every unit of the batch
\* has terminated, finished or failed.
C3_JoinWaitsForAll ==
    mainPc = "returned" => \A i \in Batch : Terminated(i)

C3_Witness ==
    /\ mainPc = "returned"
    /\ \E i, j \in Batch :
          /\ upc[i] = "failed" /\ io_error[i] = "create_dir_all"
          /\ upc[j] = "done" /\ attempts[j] >= 2

\* C4: a step in which unit i fails changes neither the position, the ratio,
\* the attempt count nor the file of any other unit, and a unit that has
\* finished keeps its position and its file in every step.
C4_FailureIsLocal ==
    [][/\ \A i \in Units :
             (upc[i] # "failed" /\ upc'[i] = "failed")
             => \A j \in Units \ {i} :
                   /\ upc'[j] = upc[j]
                   /\ fractal_ratio'[j] = fractal_ratio[j]
                   /\ attempts'[j] = attempts[j]
                   /\ path'[j] = path[j]
                   /\ path[j] # <<>> => disk'[path[j]] = disk[path[j]]
       /\ \A j \in Units :
             upc[j] = "done"
             => upc'[j] = "done" /\ disk'[path[j]] = disk[path[j]]]_vars

C4_Witness ==
    \E i, j \in Batch :
        /\ i # j
        /\ upc[i] = "failed" /\ io_error[i] = "save"
        /\ upc[j] = "done"
        /\ disk[path[j]].decodable /\ disk[path[j]].noise >= NoiseMin
        /\ mainPc = "running"

\* C5: a unit whose I/O call returned an error is failed, and from then on
\* it synthesizes, measures, pads and previews nothing: its position, ratio,
\* attempt count and file stay as they are and it reads and writes no file.
C5_ErrorEndsUnit ==
    /\ [](\A i \in Units : io_error[i] # "none" => upc[i] = "failed")
    /\ [][\A i \in Units :
             io_error[i] # "none"
             => /\ upc'[i] = upc[i]
                /\ io_error'[i] = io_error[i]
                /\ fractal_ratio'[i] = fractal_ratio[i]
                /\ attempts'[i] = attempts[i]
                /\ \A f \in AllPaths :
                      /\ (i \in writers'[f]) <=> (i \in writers[f])
                      /\ (i \in readers'[f]) <=> (i \in readers[f])
                /\ path[i] # <<>> => disk'[path[i]] = disk[path[i]]]_vars

C5_Witness ==
    \E i \in Units :
        /\ io_error[i] = "open"
        /\ upc[i] = "failed"
        /\ attempts[i] >= 1
        /\ disk[path[i]].exists

\* C6: every file a unit has written or read is named mandelbrot_{i}.png with
\* its own index i, so no file is written or read by two units.
DigitValue(ch) == CHOOSE d \in 0 .. 9 : DigitChars[d + 1] = ch

RECURSIVE ParseDecimal(_)
ParseDecimal(digits) ==
    IF Len(digits) = 0
    THEN 0
    ELSE 10 * ParseDecimal(SubSeq(digits, 1, Len(digits) - 1))
         + DigitValue(digits[Len(digits)])

IndexInPath(f) == ParseDecimal(SubSeq(f, 3, Len(f) - 1))

C6_FilenamePartition ==
    \A f \in AllPaths :
        /\ Cardinality(writers[f] \cup readers[f]) <= 1
        /\ \A i \in writers[f] \cup readers[f] :
              /\ f[1] = "src/data/images/" /\ f[2] = "mandelbrot_"
              /\ f[Len(f)] = ".png"
              /\ IndexInPath(f) = i

C6_Witness ==
    \E f, g \in AllPaths :
        /\ f # g
        /\ writers[f] # {} /\ readers[f] # {}
        /\ writers[g] # {} /\ readers[g] # {}
        /\ disk[f].decodable /\ disk[f].noise > 0
        /\ \E i \in readers[g] : attempts[i] >= 2

\* C11: a padding that completes without error leaves the file longer by
\* noise_bytes, an integer of 1_000_000 ..= 3_000_000: new size = old size +
\* noise_bytes.
C11_PaddingSizeLaw ==
    [][\A i \in Units :
          (upc[i] = "pad" /\ upc'[i] = "padded")
          => LET noise_bytes == FileLen(disk'[path[i]]) - FileLen(disk[path[i]])
             IN  /\ disk'[path[i]].exists /\ disk'[path[i]].decodable
                 /\ NoiseMin <= noise_bytes /\ noise_bytes <= NoiseMax]_vars

C11_Witness ==
    \E i, j \in Units :
        /\ upc[i] = "padded" /\ upc[j] = "padded"
        /\ disk[path[i]].noise = NoiseMin
        /\ disk[path[j]].noise = NoiseMax
        /\ FileLen(disk[path[j]]) =
              EncodedLen(disk[path[j]].width, disk[path[j]].height) + NoiseMax

\* C12: the padding only appends: the encoded image in front of the old end
\* of the file (its raster and dimensions) and the bytes appended before stay
\* as they are, the file is neither truncated nor re-encoded, and the unit's
\* fractal_ratio stays as it is.  This holds when the padding completes and
\* when write_all fails part-way.
C12_PaddingOnlyAppends ==
    [][\A i \in Units :
          (upc[i] = "pad" /\ upc'[i] # "pad")
          => LET old == disk[path[i]]
                 new == disk'[path[i]]
             IN  /\ new.exists /\ new.decodable
                 /\ new.grid = old.grid
                 /\ new.width = old.width /\ new.height = old.height
                 /\ new.noise >= old.noise
                 /\ FileLen(new) >= FileLen(old)
                 /\ fractal_ratio'[i] = fractal_ratio[i]]_vars

C12_Witness ==
    \E i \in Units :
        /\ upc[i] = "padded"
        /\ attempts[i] >= 2
        /\ disk[path[i]].noise >= NoiseMin
        /\ fractal_ratio[i] =
              Ratio(BlackPixels(disk[path[i]]),
                    disk[path[i]].width * disk[path[i]].height)

\* C13: a ratio outside the band is no error and ends no unit.  A unit fails
\* only by an I/O error; a measurement that returns a ratio outside the band
\* sends the unit to a new synthesis, which draws a fresh tuple and writes
\* its image to the unit's own file; and the unit comes to the padding only
\* from a measurement whose ratio is inside the band.
RatioOutside(r) ==
    \/ BandDen * r.black < BandLoNum * r.total
    \/ BandHiNum * r.total < BandDen * r.black

C13_RejectionRetries ==
    /\ [](\A i \in Units : upc[i] = "failed" => io_error[i] # "none")
    /\ [][\A i \in Units :
             /\ (upc[i] = "measure" /\ upc'[i] # "measure" /\ io_error'[i] = "none")
                => /\ RatioOutside(fractal_ratio'[i]) => upc'[i] = "regen"
                   /\ ~RatioOutside(fractal_ratio'[i]) => upc'[i] = "pad"
             /\ (upc[i] = "regen" /\ upc'[i] # "regen" /\ io_error'[i] = "none")
                => /\ upc'[i] = "measure"
                   /\ path'[i] = ImagePath(Filename(i))
                   /\ \E d \in DrawChoices :
                         disk'[path'[i]] =
                            ImageFile(Rendered[d], d.width, d.height, 0)
             /\ (upc[i] # "pad" /\ upc'[i] = "pad")
                => upc[i] = "measure" /\ ~RatioOutside(fractal_ratio'[i])]_vars

C13_Witness ==
    \E i \in Units :
        /\ upc[i] = "measure"
        /\ attempts[i] >= 1
        /\ RatioOutside(fractal_ratio[i])
        /\ io_error[i] = "none"
        /\ RatioOutside(Ratio(BlackPixels(disk[path[i]]),
                              disk[path[i]].width * disk[path[i]].height))

\* C18: the order of the steps of a unit.  Its file is written only by a
\* synthesis or by the padding; the padding comes only after acceptance and
\* acts on a file that holds no noise yet, so it happens at most once and
\* every synthesis comes before it; once the unit has padded, its file is
\* never written again and the unit only previews and returns; and the
\* preview is tried only after the padding.
OwnFiles == [i \in Units |-> ImagePath(Filename(i))]

C18_UnitOrdering ==
    /\ [](\A i \in Units :
            /\ upc[i] \in {"padded", "done"}
               => /\ NoiseMin <= disk[OwnFiles[i]].noise
                  /\ disk[OwnFiles[i]].noise <= NoiseMax
            /\ (disk[OwnFiles[i]].exists /\ disk[OwnFiles[i]].decodable
                /\ disk[OwnFiles[i]].noise > 0)
               => upc[i] \in {"padded", "done", "failed"})
    /\ [][\A i \in Units :
             /\ disk'[OwnFiles[i]] # disk[OwnFiles[i]]
                => upc[i] \in {"start", "regen", "pad"}
             /\ (upc[i] # "pad" /\ upc'[i] = "pad")
                => /\ upc[i] = "measure"
                   /\ ~RatioOutside(fractal_ratio'[i])
             /\ (upc[i] = "pad" /\ disk'[OwnFiles[i]] # disk[OwnFiles[i]])
                => /\ disk[OwnFiles[i]].noise = 0
                   /\ upc'[i] \in {"padded", "failed"}
             /\ upc[i] \in {"padded", "done", "failed"}
                => /\ disk'[OwnFiles[i]] = disk[OwnFiles[i]]
                   /\ upc'[i] \in {"padded", "done", "failed"}
             /\ (io_error[i] # "spawn" /\ io_error'[i] = "spawn")
                => upc[i] = "padded" /\ preview]_vars

C18_Witness ==
    \E i \in Units :
        /\ upc[i] = "done"
        /\ preview
        /\ attempts[i] >= 2
        /\ disk[OwnFiles[i]].noise = NoiseMax
        /\ i \in writers[OwnFiles[i]]

\* C21: the accepted ratio is the ratio of the final image.  A unit at the
\* padding has measured at least one image (the ratio 0.0 it starts with is
\* never accepted), and the file under its own name holds, with no noise
\* yet, the image whose black pixels over all pixels is the fractal_ratio it
\* holds; no other unit has written that file.
C21_RatioOfFinalImage ==
    \A i \in Units :
        upc[i] = "pad"
        => /\ attempts[i] >= 1
           /\ i \in readers[OwnFiles[i]]
           /\ writers[OwnFiles[i]] = {i}
           /\ path[i] = OwnFiles[i]
           /\ disk[OwnFiles[i]].exists /\ disk[OwnFiles[i]].decodable
           /\ disk[OwnFiles[i]].noise = 0
           /\ fractal_ratio[i].total =
                 disk[OwnFiles[i]].width * disk[OwnFiles[i]].height
           /\ fractal_ratio[i].black =
                 Cardinality({px \in DOMAIN disk[OwnFiles[i]].grid :
                                disk[OwnFiles[i]].grid[px] = <<0, 0, 0>>})

C21_Witness ==
    \E i, j \in Units :
        /\ i # j
        /\ upc[i] = "pad"
        /\ attempts[i] >= 2
        /\ fractal_ratio[i].black > 0
        /\ upc[j] = "measure" /\ attempts[j] >= 1
        /\ disk[OwnFiles[j]].grid # disk[OwnFiles[i]].grid

\* C22: the attempts counter.  attempts is the number of images the unit has
\* measured.  Where the loop condition has been evaluated, every image the
\* unit synthesized has been measured, but for the one it is about to
\* measure; a unit that was accepted holds attempts = rejections + 1; and
\* the unit regenerates on exactly the turns of the loop that start with
\* attempts > 0: the image of turn 0 is the one synthesized before the loop,
\* so the images synthesized are one more than the turns that regenerated.
C22_AttemptCounter ==
    \A i \in Units :
        /\ attempts[i] = tally[i].measured
        /\ upc[i] = "measure"
           => tally[i].synthesized = attempts[i] + 1
        /\ upc[i] \in {"regen", "pad"}
           => tally[i].synthesized = attempts[i]
        /\ upc[i] = "regen"
           => attempts[i] > 0 /\ tally[i].rejected = attempts[i]
        /\ upc[i] \in {"pad", "padded", "done"}
           => attempts[i] = tally[i].rejected + 1

C22_Witness ==
    \E i \in Units :
        /\ upc[i] = "pad"
        /\ attempts[i] = MaxAttempts
        /\ tally[i].rejected = MaxAttempts - 1
        /\ tally[i].synthesized = MaxAttempts
        /\ MaxAttempts >= 2

(***************************************************************************)
(* Claims about the generate command that need fairness, checked under     *)
(* SpecFair.                                                               *)
(***************************************************************************)
\* the image unit i has drawn and saved lies inside the band
InBandDrawn(i) ==
    /\ path[i] # <<>>
    /\ disk[path[i]].exists /\ disk[path[i]].decodable
    /\ ~RatioOutside(Ratio(BlackPixels(disk[path[i]]),
                           disk[path[i]].width * disk[path[i]].height))

\* unit i was accepted, has padded its file and has returned Ok
AcceptedPaddedFinished(i) ==
    /\ upc[i] = "done"
    /\ disk[path[i]].noise >= NoiseMin
    /\ BandLoNum * fractal_ratio[i].total <= BandDen * fractal_ratio[i].black
    /\ BandDen * fractal_ratio[i].black <= BandHiNum * fractal_ratio[i].total

C7_UpsertIdempotent ==
    \A k \in 1 .. (Len(csvAfter) - 1) : csvAfter[k + 1] = csvAfter[k]

\* C15 (as claimed): the ledger is append-only.  In every run of upload the
\* rows that urls.csv held before the run are the first rows it holds after
\* the run, unchanged and in the same order, and the rows of new files come
\* after them.  A row is a record after the header, a missing field of it
\* counting as empty.
LedgerRow(record) ==
    [j \in 1 .. 4 |-> IF j <= Len(record) THEN record[j] ELSE EmptyString]

LedgerRows(records) ==
    [k \in 1 .. (Len(records) - 1) |-> LedgerRow(records[k + 1])]

C15_AppendOnly ==
    [][(upPc # "idle" /\ upPc' = "idle")
       => LET before == LedgerRows(csv.records)
              after == LedgerRows(csv'.records)
          IN  /\ Len(before) <= Len(after)
              /\ SubSeq(after, 1, Len(before)) = before]_vars

\* C16 (as claimed): every object put to the Space carries a content type
\* inferred from the extension of its file name: png, jpg or jpeg, gif and
\* webp, in either case of letters, give their image types, and everything
\* else, a name without extension included, gives application/octet-stream.
ClaimedContentType(file) ==
    LET dot == LastIndexOf(file, ".")
        ext == IF dot = 0
               THEN EmptyString
               ELSE ToLowercase(SubSeq(file, dot + 1, Len(file)))
    IN  CASE ext = <<"p", "n", "g">> -> <<"image/png">>
          [] ext \in {<<"j", "p", "g">>, <<"j", "p", "e", "g">>} -> <<"image/jpeg">>
          [] ext = <<"g", "i", "f">> -> <<"image/gif">>
          [] ext = <<"w", "e", "b", "p">> -> <<"image/webp">>
          [] OTHER -> <<"application/octet-stream">>

C16_ContentTypeInferred ==
    \A f \in FileNames(folder) :
        S3Key(f) \in DOMAIN sink
        => sink[S3Key(f)].content_type = ClaimedContentType(f)

\* C20 (as claimed): upload_folder_to_do_space returns an error when the put
\* of at least one file failed, and returns Ok only when the put of every
\* file succeeded.
C20_PutFailurePropagates ==
    folderResult # "none"
    => /\ (\E f \in DOMAIN tasks : tasks[f] = "Err") => folderResult = "Err"
       /\ folderResult = "Ok" => \A f \in DOMAIN tasks : tasks[f] = "Ok"

\* C23: upload writes the ledger whatever the folder upload returned.  After
\* a run over an existing folder, a run that returned Ok has left in urls.csv
\* a row for every file of the folder, whether the folder upload returned Ok
\* or Err and whether or not the file reached the Space; and a run returns
\* Err only for the ledger itself (urls.csv could not be read, or it was
\* created anew and could not be written), never for the folder upload.  A
\* row for a file is a row whose first field is the CDN URL of the file or,
\* in a ledger of the older layout, its relative path.
HasRowFor(records, file) ==
    \E k \in 2 .. Len(records) :
        records[k][1] = CdnUrl(file) \/ records[k][1] = file

C23_LedgerWrittenRegardless ==
    (upPc = "idle" /\ runs >= 1 /\ folder.exists)
    => /\ uploadResult \in {"Ok", "Err"}
       /\ uploadResult = "Ok"
          => /\ csv.exists
             /\ csv.records[1] = CsvHeader
             /\ \A f \in FileNames(folder) : HasRowFor(csv.records, f)
       /\ uploadResult = "Err"
          => \/ ~ReadCsv(csv).ok
             \/ csv = [exists |-> TRUE, records |-> <<>>]

C23_Witness ==
    /\ upPc = "idle" /\ runs >= 1 /\ folder.exists
    /\ folderResult = "Err"
    /\ uploadResult = "Ok"
    /\ Len(folder.files) >= 2
    /\ sink = <<>>
    /\ \A f \in FileNames(folder) : HasRowFor(csv.records, f)

====
